---------------------------- MODULE Spec2Model ----------------------------
(***************************************************************************)
(* A model of the zzz_scraper repository:                                  *)
(*   - the batch downloader, src/src/downloader/MinasDownloader.py         *)
(*     (run_batch_from_csv, _process_csv_row, _zip_current_path and its    *)
(*     progress poller _poll), specification Spec;                         *)
(*   - the discovery run, src/src/scraper/MinasScraper.py (run and         *)
(*     _write_csv), specification SpecDiscovery.                           *)
(*                                                                         *)
(* Text is modelled as a sequence of characters (or of tokens that the     *)
(* code never looks into) so that stripping, quoting and sanitising are    *)
(* computed, not assumed.  A file path inside an archive or a directory    *)
(* is the sequence of its segments.                                        *)
(***************************************************************************)
EXTENDS Integers, Sequences, FiniteSets, TLC

VARIABLES
    \* ---- configuration of a batch run (fixed at start-up)
    rows,            \* the rows read from the input CSV
    ROW_TIMEOUT_SEC, \* int(os.getenv("MINAS_ROW_TIMEOUT", "420"))
    MAX_ROWS,        \* os.getenv("MINAS_MAX_ROWS"): <<>> when unset, <<n>> when set
    \* ---- run_batch_from_csv
    idx,             \* enumerate(rows, 1): the row the loop is at
    bpc,             \* "loop": between rows, "row": inside asyncio.run, "end"
    outcome,         \* per row, what the loop printed for it
    handed,          \* rows handed to _process_csv_row in this run
    aborted,         \* the loop was left by KeyboardInterrupt
    \* ---- the file system under out_root
    dirs,            \* target directory -> "absent", "complete" or "partial"
    \* ---- one invocation of _zip_current_path
    pc,              \* where the coroutine is suspended
    sessions,        \* rows whose browser session is live
    listener,        \* a "download" listener is attached to the page
    clicked,         \* the ZIP button was clicked
    dlEvent,         \* "none", "missed" (fired unheard) or "delivered"
    holder,          \* progress_token_holder["token"]
    progress_token,  \* the local progress_token
    waited,          \* the local waited (ms)
    poll,            \* poll_task: "none", "running" or how _poll ended
    last_pct,        \* the poller's last_pct
    destExists,      \* the archive file dest of this invocation exists
    extractRaised,   \* the extraction block of this invocation raised
    \* ---- the discovery run (MinasScraper)
    table,           \* out_csv: the sequence of stored rows
    source,          \* the rows of the posts CSV of this run
    keywords,        \* the task's keyword filter already lower-cased
    stop_on_seen,    \* the task's stop_on_seen flag
    existing_map,    \* _load_existing_map(out_csv) of this run
    results,         \* the run's results list
    dpc,             \* "idle", "loop", "written", "crashed"
    didx,            \* enumerate(rows, start=1) of the discovery loop
    druns,           \* number of discovery runs started
    before,          \* the table as it was when the current run started
    \* ---- one call of a function taken on its own
    call,            \* the function called and its arguments
    ret              \* what the call returned, NoRet before it has

cfgVars  == <<rows, ROW_TIMEOUT_SEC, MAX_ROWS>>
loopVars == <<idx, bpc, outcome, handed, aborted>>
fsVars   == <<dirs>>
zipVars  == <<pc, sessions, listener, clicked, dlEvent, holder, progress_token,
              waited, poll, last_pct, destExists, extractRaised>>
discVars == <<table, source, keywords, stop_on_seen, existing_map, results,
              dpc, didx, druns, before>>
fnVars   == <<call, ret>>
vars     == <<cfgVars, loopVars, fsVars, zipVars, discVars, fnVars>>

----------------------------------------------------------------------------
(* Bounds of the model *)

NumRows  == 2      \* rows in the input CSV of a batch
MaxCount == 2      \* largest zipped / total count in a progress response
MaxPosts == 2      \* rows in the posts CSV of a discovery run
MaxDiscoveryRuns == 2

----------------------------------------------------------------------------
(* Text helpers *)

WS     == {" "}
Quotes == {"\"", "'"}

RECURSIVE LStripChars(_, _)
LStripChars(s, cs) ==
    IF s # <<>> /\ Head(s) \in cs THEN LStripChars(Tail(s), cs) ELSE s

RECURSIVE RStripChars(_, _)
RStripChars(s, cs) ==
    IF s # <<>> /\ s[Len(s)] \in cs
    THEN RStripChars(SubSeq(s, 1, Len(s) - 1), cs) ELSE s

\* str.strip(chars)
StripChars(s, cs) == RStripChars(LStripChars(s, cs), cs)

\* str.strip()
Strip(s) == StripChars(s, WS)

\* str.replace / re.sub of single characters
ReplaceChars(s, cs, by) == [i \in 1..Len(s) |-> IF s[i] \in cs THEN by ELSE s[i]]

Untitled == <<"u","n","t","i","t","l","e","d">>

\* sanitize_filename
sanitize_filename(name) ==
    LET t == Strip(ReplaceChars(name, {"\\", "/", ":", "*", "?", "\""}, "_"))
    IN  IF t = <<>> THEN Untitled ELSE t

\* the shared first half of _norm_cell and _norm_outer_quotes
OuterUnquoted(val) ==
    LET v == Strip(val)
    IN  IF Len(v) >= 2 /\ v[1] = v[Len(v)] /\ v[1] \in Quotes
        THEN Strip(SubSeq(v, 2, Len(v) - 1))
        ELSE v

_norm_outer_quotes(val) == OuterUnquoted(val)

_norm_cell(val) == StripChars(OuterUnquoted(val), Quotes)

\* post_time normalised to yyyy.mm.dd, or empty
norm_post_time(post_time) ==
    IF post_time # <<>>
       /\ Len(post_time) >= 10
       /\ \/ post_time[5] = "-" /\ post_time[8] = "-"
          \/ post_time[5] = "/" /\ post_time[8] = "/"
    THEN ReplaceChars(SubSeq(post_time, 1, 10), {"-", "/"}, ".")
    ELSE <<>>

----------------------------------------------------------------------------
(* The input of a batch: rows of the CSV *)

Date1 == <<"2","0","2","5","-","0","9","-","0","1">>
Date2 == <<"2","0","2","5","/","0","9","/","0","1">>

Row(n, l, p, t) == [post_name |-> n, minas_link |-> l, minas_pwd |-> p, post_time |-> t]

\* Rows a CSV can hold: two names that sanitise to the same folder, a padded
\* name without a usable date, a row whose password is a stray quote, and a
\* row whose name is a pair of quotes around a blank and whose link is blank.
RowCatalogue ==
    { Row(<<"a","/">>, <<"u">>, <<"p">>, Date1),
      Row(<<"a",":">>, <<"u">>, <<"p">>, Date2),
      Row(<<" ","b">>, <<"u">>, <<"p">>, <<"x">>),
      Row(<<"b">>,     <<"u">>, <<"'">>, <<>>),
      Row(<<"'"," ","'">>, <<" ">>, <<"p">>, <<>>) }

\* folder_name of _process_csv_row
FolderName(row) ==
    LET post_name == _norm_outer_quotes(row.post_name)
        t         == norm_post_time(_norm_cell(row.post_time))
    IN  IF t # <<>> THEN t \o <<" ">> \o post_name ELSE post_name

\* target_dir of _process_csv_row, relative to out_root
TargetDir(row) == sanitize_filename(FolderName(row))

MissingField_PasswordOptional(row) ==
    \/ _norm_cell(row.minas_link) = <<>>
    \/ _norm_outer_quotes(row.post_name) = <<>>

\* "if not url or not password or not post_name"
MissingField(row) ==
    \/ _norm_cell(row.minas_link) = <<>>
    \/ _norm_cell(row.minas_pwd) = <<>>
    \/ _norm_outer_quotes(row.post_name) = <<>>

DirNames == {TargetDir(r) : r \in RowCatalogue}


----------------------------------------------------------------------------
(* Archives and their extraction *)

\* A member is the list m.split('/') of its name; "F/" is <<"F", "">>.
Arch(n, r, d, ms) == [name |-> n, readable |-> r, damaged |-> d, members |-> ms]

Archives ==
    { Arch("flat",    TRUE,  FALSE, {<<"F","x">>, <<"F","y">>}),
      Arch("nested",  TRUE,  FALSE, {<<"F","F">>, <<"F","x">>}),
      Arch("mixed",   TRUE,  FALSE, {<<"x">>, <<"F","y">>}),
      Arch("multi",   TRUE,  FALSE, {<<"F","x">>, <<"G","y">>}),
      Arch("direntry",TRUE,  FALSE, {<<"F","">>, <<"F","x">>}),
      Arch("crc",     TRUE,  TRUE,  {<<"F","x">>, <<"F","y">>}),
      Arch("notzip",  FALSE, FALSE, {}) }

\* roots, as the loop over zip_ref.namelist() builds it
Roots(members) ==
    { IF Len(m) > 1 /\ m[1] # "" THEN m[1] ELSE "" : m \in members \ {<<"">>} }

has_single_root_RootFilesIgnored(members) ==
    Cardinality(Roots(members) \ {""}) = 1

\* has_single_root = ('' not in roots) and (len(roots) == 1)
has_single_root(members) ==
    LET roots == Roots(members) IN ("" \notin roots) /\ Cardinality(roots) = 1

\* the path extractall creates for a member (a directory entry ends in "")
Entry(m) == IF m[Len(m)] = "" THEN SubSeq(m, 1, Len(m) - 1) ELSE m

Prefixes(p) == {SubSeq(p, 1, k) : k \in 1..Len(p)}

\* zip_ref.extractall: every member and the directories above it
ExtractAll(ms) == UNION {Prefixes(Entry(m)) : m \in ms}

Children(tree, root) == {p[2] : p \in {q \in tree : Len(q) >= 2 /\ q[1] = root}}

\* shutil.move(inner / c, extract_dir / c) for every c of moved
MovedUp(tree, root, moved) ==
    {IF Len(p) >= 2 /\ p[1] = root /\ p[2] \in moved THEN Tail(p) ELSE p : p \in tree}

\* The flattening loop.  shutil.move of inner/<root> onto extract_dir/<root>
\* finds the destination to be the directory inner itself, in which the
\* source already exists, and raises; iterdir's order is arbitrary, so any
\* of the other children may have been moved by then.
Flatten(tree, root) ==
    LET cs == Children(tree, root)
    IN  IF <<root>> \notin tree
        THEN {[tree |-> tree, raised |-> FALSE]}
        ELSE IF root \in cs
        THEN {[tree |-> MovedUp(tree, root, m), raised |-> TRUE] :
                  m \in SUBSET (cs \ {root})}
        ELSE {[tree |-> MovedUp(tree, root, cs) \ {<<root>>}, raised |-> FALSE]}

\* The try block of _zip_current_path with a forced extraction directory that
\* does not exist yet: what becomes of the directory and whether it raised.
ExtractForced(arch) ==
    IF ~arch.readable
    THEN {[created |-> FALSE, tree |-> {}, raised |-> TRUE]}
    ELSE IF arch.damaged
    THEN {[created |-> TRUE, tree |-> ExtractAll(part), raised |-> TRUE] :
              part \in (SUBSET arch.members) \ {arch.members}}
    ELSE IF has_single_root(arch.members)
    THEN {[created |-> TRUE, tree |-> f.tree, raised |-> f.raised] :
              f \in Flatten(ExtractAll(arch.members),
                            CHOOSE r \in Roots(arch.members) : TRUE)}
    ELSE {[created |-> TRUE, tree |-> ExtractAll(arch.members), raised |-> FALSE]}

----------------------------------------------------------------------------
(* run_batch_from_csv and _process_csv_row *)

TimeoutChoices == {-1, 0, 420}
MaxRowsChoices == {<<>>, <<0>>, <<1>>}

HasRowTimeout_Truthy == ROW_TIMEOUT_SEC # 0

\* row_timeout = ROW_TIMEOUT_SEC if ROW_TIMEOUT_SEC > 0 else None
HasRowTimeout == ROW_TIMEOUT_SEC > 0

OverLimit_OffByOne(i) == MAX_ROWS # <<>> /\ i > MAX_ROWS[1] + 1

\* "max_rows is not None and idx > max_rows"
OverLimit(i) == MAX_ROWS # <<>> /\ i > MAX_ROWS[1]

TargetExists_Unsanitized(row) ==
    FolderName(row) \in DirNames /\ dirs[FolderName(row)] # "absent"

\* target_dir of every row a CSV can hold
TargetDirOf == [r \in RowCatalogue |-> TargetDir(r)]

\* target_dir.exists()
TargetExists(row) == dirs[TargetDirOf[row]] # "absent"

ZipIdle ==
    /\ pc' = "idle"
    /\ listener' = FALSE
    /\ clicked' = FALSE
    /\ dlEvent' = "none"
    /\ holder' = ""
    /\ progress_token' = ""
    /\ waited' = 0
    /\ poll' = "none"
    /\ last_pct' = -1
    /\ destExists' = FALSE
    /\ extractRaised' = FALSE

InitBatch ==
    /\ rows \in [1..NumRows -> RowCatalogue]
    /\ ROW_TIMEOUT_SEC \in TimeoutChoices
    /\ MAX_ROWS \in MaxRowsChoices
    /\ idx = 1
    /\ bpc = "loop"
    /\ outcome = [i \in 1..NumRows |-> "none"]
    /\ handed = {}
    /\ aborted = FALSE
    /\ dirs = [d \in DirNames |-> "absent"]
    /\ pc = "idle"
    /\ sessions = {}
    /\ listener = FALSE
    /\ clicked = FALSE
    /\ dlEvent = "none"
    /\ holder = ""
    /\ progress_token = ""
    /\ waited = 0
    /\ poll = "none"
    /\ last_pct = -1
    /\ destExists = FALSE
    /\ extractRaised = FALSE

SessionsAfterRow_Leak(s, i) == IF pc = "close" THEN s \ {i} ELSE s

\* the browser sessions once row i's coroutine has returned, raised or been
\* cancelled: "async with async_playwright()" closes the row's browser
SessionsAfterRow(s, i) == s \ {i}

LoopAfterException_Break == "end"

\* where the for loop is after "except Exception" printed FAILED
LoopAfterException == "loop"

\* the row is over: the loop prints its line and goes on at bpc' = next
EndRow(printed, next) ==
    /\ outcome' = [outcome EXCEPT ![idx] = printed]
    /\ idx' = idx + 1
    /\ bpc' = next
    /\ sessions' = SessionsAfterRow(sessions, idx)
    /\ ZipIdle
    /\ UNCHANGED <<handed, aborted>>

InLoop == bpc = "loop" /\ idx <= Len(rows) /\ ~OverLimit(idx)

\* "Reached MINAS_MAX_ROWS": break
LoopStop ==
    /\ bpc = "loop" /\ idx <= Len(rows) /\ OverLimit(idx)
    /\ bpc' = "end"
    /\ UNCHANGED <<fnVars, cfgVars, idx, outcome, handed, aborted, fsVars, zipVars, discVars>>

\* the for loop runs out of rows
LoopDone ==
    /\ bpc = "loop" /\ idx > Len(rows)
    /\ bpc' = "end"
    /\ UNCHANGED <<fnVars, cfgVars, idx, outcome, handed, aborted, fsVars, zipVars, discVars>>

\* _process_csv_row returns at "Skip (missing field)"
RowSkipMissing ==
    /\ InLoop
    /\ MissingField(rows[idx])
    /\ handed' = handed \cup {idx}
    /\ outcome' = [outcome EXCEPT ![idx] = "skip_missing"]
    /\ idx' = idx + 1
    /\ UNCHANGED <<fnVars, cfgVars, bpc, aborted, fsVars, zipVars, discVars>>

\* _process_csv_row returns at "SKIP (exists)"
RowSkipExists ==
    /\ InLoop
    /\ ~MissingField(rows[idx])
    /\ TargetExists(rows[idx])
    /\ handed' = handed \cup {idx}
    /\ outcome' = [outcome EXCEPT ![idx] = "skip_exists"]
    /\ idx' = idx + 1
    /\ UNCHANGED <<fnVars, cfgVars, bpc, aborted, fsVars, zipVars, discVars>>

\* _process_csv_row calls _zip_current_path, which suspends at its first await
RowAcquire ==
    /\ InLoop
    /\ ~MissingField(rows[idx])
    /\ ~TargetExists(rows[idx])
    /\ handed' = handed \cup {idx}
    /\ bpc' = "row"
    /\ pc' = "launch"
    /\ UNCHANGED <<fnVars, cfgVars, idx, outcome, aborted, fsVars, sessions, listener,
                   clicked, dlEvent, holder, progress_token, waited, poll,
                   last_pct, destExists, extractRaised, discVars>>

\* the same program is started again on the same CSV
NextRun ==
    /\ bpc = "end"
    /\ idx' = 1
    /\ bpc' = "loop"
    /\ outcome' = [i \in 1..NumRows |-> "none"]
    /\ handed' = {}
    /\ aborted' = FALSE
    /\ UNCHANGED <<fnVars, cfgVars, fsVars, zipVars, discVars>>

RowTimeout_OnlyWhileDownloading ==
    /\ bpc = "row" /\ pc = "await_dl"
    /\ HasRowTimeout
    /\ EndRow("TIMEOUT", "loop")
    /\ UNCHANGED <<fnVars, cfgVars, fsVars, discVars>>

\* asyncio.wait_for cancels the row's coroutine at the await it is suspended
\* in; the async with blocks close the browser; the loop prints TIMEOUT
RowTimeout ==
    /\ bpc = "row"
    /\ HasRowTimeout
    /\ EndRow("TIMEOUT", "loop")
    /\ UNCHANGED <<fnVars, cfgVars, fsVars, discVars>>

\* an await of the row raises (navigation error, button never visible, page
\* closed, save_as failing, ...); "except Exception" prints FAILED
RowFails ==
    /\ bpc = "row"
    /\ EndRow("FAILED", LoopAfterException)
    /\ UNCHANGED <<fnVars, cfgVars, fsVars, discVars>>

\* KeyboardInterrupt: "Aborted by user", break
Interrupt ==
    /\ bpc = "row"
    /\ outcome' = [outcome EXCEPT ![idx] = "aborted"]
    /\ bpc' = "end"
    /\ aborted' = TRUE
    /\ sessions' = SessionsAfterRow(sessions, idx)
    /\ ZipIdle
    /\ UNCHANGED <<fnVars, cfgVars, idx, handed, fsVars, discVars>>

----------------------------------------------------------------------------
(* _zip_current_path: one action per stretch of code between two awaits *)

TOKEN_WAIT_LIMIT == 30000   \* "while not progress_token and waited < 30000"
TOKEN_WAIT_STEP  == 250     \* "await page.wait_for_timeout(250); waited += 250"

At(p) == bpc = "row" /\ pc = p

PageOpen == bpc = "row" /\ idx \in sessions

\* async_playwright, chromium.launch, new_context, new_page, goto
Launch ==
    /\ At("launch")
    /\ sessions' = sessions \cup {idx}
    /\ pc' = "gate"
    /\ UNCHANGED <<fnVars, cfgVars, loopVars, fsVars, listener, clicked, dlEvent, holder,
                   progress_token, waited, poll, last_pct, destExists, extractRaised, discVars>>

\* the password gate and the wait for the directory view; every failure in it
\* is swallowed; page.on("response", _on_response) is registered
PasswordGate ==
    /\ At("gate")
    /\ pc' = "locate"
    /\ UNCHANGED <<fnVars, cfgVars, loopVars, fsVars, sessions, listener, clicked, dlEvent,
                   holder, progress_token, waited, poll, last_pct, destExists, extractRaised, discVars>>

\* the ZIP button becomes visible, at once or after the reload
LocateZip ==
    /\ At("locate")
    /\ pc' = "listen"
    /\ UNCHANGED <<fnVars, cfgVars, loopVars, fsVars, sessions, listener, clicked, dlEvent,
                   holder, progress_token, waited, poll, last_pct, destExists, extractRaised, discVars>>

\* What "download_promise = page.wait_for_event("download")" does to the
\* page's listeners.  Page.wait_for_event of playwright.async_api is a
\* coroutine function: the call builds a coroutine object and runs none of
\* its body, so the listener is attached only when the object is awaited.
ListenerAfterWaitForEventCall(l) == l

\* download_promise = page.wait_for_event("download"); wait_for_timeout(300)
Listen ==
    /\ At("listen")
    /\ listener' = ListenerAfterWaitForEventCall(listener)
    /\ pc' = "click"
    /\ UNCHANGED <<fnVars, cfgVars, loopVars, fsVars, sessions, clicked, dlEvent, holder,
                   progress_token, waited, poll, last_pct, destExists, extractRaised, discVars>>

\* await zip_btn.click(); progress_token = None; waited = 0
Click ==
    /\ At("click")
    /\ clicked' = TRUE
    /\ progress_token' = ""
    /\ waited' = 0
    /\ pc' = "token_wait"
    /\ UNCHANGED <<fnVars, cfgVars, loopVars, fsVars, sessions, listener, dlEvent, holder,
                   poll, last_pct, destExists, extractRaised, discVars>>

\* _on_response / _grab: a progress request of the page is seen
TokenSeen ==
    /\ PageOpen /\ clicked
    /\ holder = ""
    /\ holder' = "tok"
    /\ UNCHANGED <<fnVars, cfgVars, loopVars, fsVars, pc, sessions, listener, clicked, dlEvent,
                   progress_token, waited, poll, last_pct, destExists, extractRaised, discVars>>

\* the browser starts the download: the page emits "download" once, to the
\* listeners attached at that moment
DownloadStarts ==
    /\ PageOpen /\ clicked
    /\ dlEvent = "none"
    /\ dlEvent' = IF listener THEN "delivered" ELSE "missed"
    /\ UNCHANGED <<fnVars, cfgVars, loopVars, fsVars, pc, sessions, listener, clicked, holder,
                   progress_token, waited, poll, last_pct, destExists, extractRaised,
                   discVars>>

FirstAwaitAfterTokenLoop_Poller(p) == IF p = "running" THEN "await_poll" ELSE "await_dl"

\* what the controller awaits first after the token loop, with poll_task p:
\* "download = await download_promise", whether or not a poller was created
FirstAwaitAfterTokenLoop(p) == "await_dl"

\* the statements from the end of the token loop to "await download_promise":
\* none of them awaits, and awaiting the coroutine attaches the listener
\* (waited is not read after the loop; the model forgets it)
AwaitDownload(p) ==
    /\ listener' = TRUE
    /\ waited' = 0
    /\ pc' = FirstAwaitAfterTokenLoop(p)

\* one turn of the token loop without a token
TokenWait ==
    /\ At("token_wait")
    /\ progress_token = "" /\ waited < TOKEN_WAIT_LIMIT
    /\ holder = ""
    /\ waited' = waited + TOKEN_WAIT_STEP
    /\ UNCHANGED <<fnVars, cfgVars, loopVars, fsVars, pc, sessions, listener, clicked, dlEvent,
                   holder, progress_token, poll, last_pct, destExists, extractRaised, discVars>>

\* the loop finds the token: break, poll_task = create_task(_poll()), await
TokenFound ==
    /\ At("token_wait")
    /\ progress_token = "" /\ waited < TOKEN_WAIT_LIMIT
    /\ holder # ""
    /\ progress_token' = holder
    /\ poll' = "running"
    /\ last_pct' = -1
    /\ AwaitDownload("running")
    /\ UNCHANGED <<fnVars, cfgVars, loopVars, fsVars, sessions, clicked, dlEvent, holder,
                   destExists, extractRaised, discVars>>

TokenGiveUp_StartsPoller ==
    /\ At("token_wait")
    /\ progress_token = "" /\ waited >= TOKEN_WAIT_LIMIT
    /\ poll' = "running"
    /\ AwaitDownload("running")
    /\ UNCHANGED <<fnVars, cfgVars, loopVars, fsVars, sessions, clicked, dlEvent, holder,
                   progress_token, last_pct, destExists, extractRaised, discVars>>

\* the loop ends without a token: "no token captured", poll_task stays None
TokenGiveUp ==
    /\ At("token_wait")
    /\ progress_token = "" /\ waited >= TOKEN_WAIT_LIMIT
    /\ AwaitDownload(poll)
    /\ UNCHANGED <<fnVars, cfgVars, loopVars, fsVars, sessions, clicked, dlEvent, holder,
                   progress_token, poll, last_pct, destExists, extractRaised, discVars>>

\* download = await download_promise; the file name; await download.save_as
GotDownload ==
    /\ At("await_dl")
    /\ dlEvent = "delivered"
    /\ pc' = "save"
    /\ UNCHANGED <<fnVars, cfgVars, loopVars, fsVars, sessions, listener, clicked, dlEvent,
                   holder, progress_token, waited, poll, last_pct, destExists, extractRaised, discVars>>

\* After the extraction block: "if poll_task: await poll_task".  Awaiting a
\* task that is done does not suspend.
AfterExtraction(p) == IF p = "running" THEN "await_poll" ELSE "close"

\* What a forced target directory holds when its archive was unpacked and
\* flattened as intended: the entries below the single root, or all entries.
Payload(arch) ==
    LET full == ExtractAll(arch.members)
    IN  IF has_single_root(arch.members)
        THEN {Tail(p) : p \in {q \in full : Len(q) >= 2}}
        ELSE full

DestExistsAfter_AlwaysUnlinked(o) == FALSE

\* Whether the archive file dest exists after the extraction block: the
\* block does not touch it, and dest.unlink() follows the with statement
\* inside the try, so it is reached only when nothing raised.
DestExistsAfter(o) == o.raised

\* the state of the target directory after the extraction outcome o
DirAfter(arch, o) ==
    IF ~o.created THEN "absent"
    ELSE IF ~o.raised /\ o.tree = Payload(arch) THEN "complete"
    ELSE "partial"

\* save_as returns; the try block unpacks the served archive into
\* force_extract_dir (there is no await inside it); dest.unlink() is reached
\* only without an exception; then the controller turns to poll_task
SaveAndExtract ==
    /\ At("save")
    /\ \E arch \in Archives : \E o \in ExtractForced(arch) :
          /\ dirs' = [dirs EXCEPT ![TargetDir(rows[idx])] = DirAfter(arch, o)]
          /\ destExists' = DestExistsAfter(o)
          /\ extractRaised' = o.raised
    /\ pc' = AfterExtraction(poll)
    /\ UNCHANGED <<fnVars, cfgVars, loopVars, sessions, listener, clicked, dlEvent, holder,
                   progress_token, waited, poll, last_pct, discVars>>

\* "await poll_task" returns because _poll has returned
PollerJoined ==
    /\ At("await_poll")
    /\ poll # "running"
    /\ pc' = "close"
    /\ UNCHANGED <<fnVars, cfgVars, loopVars, fsVars, sessions, listener, clicked, dlEvent,
                   holder, progress_token, waited, poll, last_pct, destExists, extractRaised, discVars>>

\* context.close, browser.close, return dest; the loop prints "done"
Close ==
    /\ At("close")
    /\ EndRow("done", "loop")
    /\ UNCHANGED <<fnVars, cfgVars, fsVars, discVars>>

----------------------------------------------------------------------------
(* _poll: one action per status response *)

Responses ==
    [zipped : 0..MaxCount, total : 0..MaxCount, failed : {0, 1}, canceled : {0, 1}]

\* pct = int((zipped * 100) / total) if total else 0
Pct(got) == IF got.total # 0 THEN (got.zipped * 100) \div got.total ELSE 0

PollVerdict_FailedFirst(got) ==
    IF got.failed # 0 THEN "Failed"
    ELSE IF got.canceled # 0 THEN "Canceled"
    ELSE IF got.total # 0 /\ got.zipped >= got.total THEN "Completed"
    ELSE "running"

\* the if / elif chain that ends the poller or lets it poll again
PollVerdict(got) ==
    IF got.canceled # 0 THEN "Canceled"
    ELSE IF got.failed # 0 THEN "Failed"
    ELSE IF got.total # 0 /\ got.zipped >= got.total THEN "Completed"
    ELSE "running"

Polling == PageOpen /\ poll = "running"

\* a status response with a body
PollResponse ==
    /\ Polling
    /\ \E got \in Responses :
          /\ last_pct' = Pct(got)
          /\ poll' = PollVerdict(got)
    /\ UNCHANGED <<fnVars, cfgVars, loopVars, fsVars, pc, sessions, listener, clicked, dlEvent,
                   holder, progress_token, waited, destExists, extractRaised, discVars>>

\* "if not got": wait 700 ms and poll again
PollNoBody ==
    /\ Polling
    /\ UNCHANGED vars

\* page.is_closed(), or page.evaluate / wait_for_timeout raising: return
PollPageGone ==
    /\ Polling
    /\ poll' = "exited"
    /\ UNCHANGED <<fnVars, cfgVars, loopVars, fsVars, pc, sessions, listener, clicked, dlEvent,
                   holder, progress_token, waited, last_pct, destExists, extractRaised, discVars>>

----------------------------------------------------------------------------

(* MinasScraper: the discovery run and the output table *)

Empty == <<>>

ArticleUrl == <<"/zzz/article/", "7">>
OtherUrl   == <<"x">>

Digits == {"7"}

\* self._mihoyo_post_id.search(url): "/zzz/article/" followed by a digit
HasPostId(url) ==
    \E i \in 1..(Len(url) - 1) : url[i] = "/zzz/article/" /\ url[i + 1] \in Digits

Post(t, n, u) == [post_time |-> t, post_name |-> n, post_url |-> u]

\* Rows a posts CSV can hold, as read: padded cells, the same post twice, a
\* post whose name carries no keyword, a row without URL.
SourceCatalogue ==
    { Post(<<"t">>, <<"W">>, <<" ">> \o ArticleUrl),
      Post(<<"t", " ">>, <<"W">>, ArticleUrl),
      Post(<<"t">>, <<"n">>, OtherUrl),
      Post(<<"t">>, <<"w">>, <<" ">>) }

KeywordChoices == { {}, {<<"w">>} }

Lower(s) == [i \in 1..Len(s) |-> IF s[i] = "W" THEN "w" ELSE s[i]]

\* k in s
Contains(s, k) ==
    \E i \in 0..(Len(s) - Len(k)) : SubSeq(s, i + 1, i + Len(k)) = k

\* _matches_keywords; keywords holds self.keywords_lower
_matches_keywords(name) ==
    keywords = {} \/ \E k \in keywords : Contains(Lower(name), k)

\* the rows list that run() builds from the posts CSV
ReadPosts(src) ==
    [i \in 1..Len(src) |->
        Post(Strip(src[i].post_time), Strip(src[i].post_name), Strip(src[i].post_url))]

\* _load_existing_map: post_url -> (minas_link, minas_pwd); a later row of
\* the file replaces an earlier one with the same URL
_load_existing_map(t) ==
    LET urls   == {Strip(t[i].post_url) : i \in 1..Len(t)} \ {Empty}
        last(u) == CHOOSE i \in 1..Len(t) :
                      /\ Strip(t[i].post_url) = u
                      /\ \A j \in (i + 1)..Len(t) : Strip(t[j].post_url) # u
    IN  [u \in urls |-> [minas_link |-> Strip(t[last(u)].minas_link),
                         minas_pwd  |-> Strip(t[last(u)].minas_pwd)]]

NoCache == [minas_link |-> Empty, minas_pwd |-> Empty]

\* existing_map.get(url, {})
Cached(url) == IF url \in DOMAIN existing_map THEN existing_map[url] ELSE NoCache

\* a or b
Or(a, b) == IF a # Empty THEN a ELSE b

Result(row, link, pwd) ==
    [post_time |-> row.post_time, post_name |-> row.post_name,
     post_url |-> row.post_url, minas_link |-> link, minas_pwd |-> pwd]

\* _merge_cached
_merge_cached(row, cached) == Result(row, cached.minas_link, cached.minas_pwd)

\* What a stage can return: nothing, a link, or a link with a password.
Found(l, p) == [link |-> l, pwd |-> p]
Nothing     == Found(Empty, Empty)
ApiResults  == {Nothing, Found(<<"La">>, Empty), Found(<<"La">>, <<"Pa">>)}
SoupResults == {Nothing, Found(<<"Ls">>, Empty)}
TextResults == {Nothing, Found(<<"Lt">>, <<"Pt">>)}

_write_csv_ExistingFirst(new, existing) ==
    LET new_urls == {Strip(new[i].post_url) : i \in 1..Len(new)} \ {Empty}
        kept(r)  == Strip(r.post_url) \notin new_urls
    IN  SelectSeq(existing, kept) \o new

_write_csv_Overwrite(new, existing) == new

\* merged_rows of _write_csv: the file's content after the write
_write_csv(new, existing) ==
    LET new_urls == {Strip(new[i].post_url) : i \in 1..Len(new)} \ {Empty}
        kept(r)  == Strip(r.post_url) \notin new_urls
    IN  new \o SelectSeq(existing, kept)

NoCall == [fn |-> "none"]
NoRet  == [done |-> FALSE]

\* no function is called on its own
FnIdle == call = NoCall /\ ret = NoRet

DiscoveryIdle ==
    /\ table = <<>>
    /\ source = <<>>
    /\ keywords = {}
    /\ stop_on_seen = FALSE
    /\ existing_map = <<>>
    /\ results = <<>>
    /\ dpc = "idle"
    /\ didx = 1
    /\ druns = 0
    /\ before = <<>>

BatchIdle ==
    /\ rows = [i \in 1..NumRows |-> CHOOSE r \in RowCatalogue : TRUE]
    /\ ROW_TIMEOUT_SEC = 420
    /\ MAX_ROWS = <<>>
    /\ idx = 1
    /\ bpc = "end"
    /\ outcome = [i \in 1..NumRows |-> "none"]
    /\ handed = {}
    /\ aborted = FALSE
    /\ dirs = [d \in DirNames |-> "absent"]
    /\ pc = "idle"
    /\ sessions = {}
    /\ listener = FALSE
    /\ clicked = FALSE
    /\ dlEvent = "none"
    /\ holder = ""
    /\ progress_token = ""
    /\ waited = 0
    /\ poll = "none"
    /\ last_pct = -1
    /\ destExists = FALSE
    /\ extractRaised = FALSE

batchVars == <<cfgVars, loopVars, fsVars, zipVars>>

\* MinasScraper(task).run() up to the loop: the posts CSV and the table are read
DStart ==
    /\ dpc \in {"idle", "written", "crashed"}
    /\ druns < MaxDiscoveryRuns
    /\ druns' = druns + 1
    /\ \E n \in 0..MaxPosts : source' \in [1..n -> SourceCatalogue]
    /\ keywords' \in KeywordChoices
    /\ stop_on_seen' \in BOOLEAN
    /\ existing_map' = _load_existing_map(table)
    /\ before' = table
    /\ results' = <<>>
    /\ didx' = 1
    /\ dpc' = "loop"
    /\ UNCHANGED <<fnVars, batchVars, table>>

DRow == ReadPosts(source)[didx]

InDLoop == dpc = "loop" /\ didx <= Len(source)

\* "if not url: continue"
DSkipNoUrl ==
    /\ InDLoop
    /\ DRow.post_url = Empty
    /\ didx' = didx + 1
    /\ UNCHANGED <<fnVars, batchVars, table, source, keywords, stop_on_seen, existing_map,
                   results, dpc, druns, before>>

\* "skip (keyword)"
DSkipKeyword ==
    /\ InDLoop
    /\ DRow.post_url # Empty
    /\ ~_matches_keywords(DRow.post_name)
    /\ didx' = didx + 1
    /\ UNCHANGED <<fnVars, batchVars, table, source, keywords, stop_on_seen, existing_map,
                   results, dpc, druns, before>>

FullyCached_LinkOnly(c) == c.minas_link # Empty

\* "if cached.get("minas_link") and cached.get("minas_pwd")"
FullyCached(c) == c.minas_link # Empty /\ c.minas_pwd # Empty

\* "skip (cached)"; with stop_on_seen the loop is left (didx jumps past the end)
DCachedRow ==
    /\ InDLoop
    /\ DRow.post_url # Empty
    /\ _matches_keywords(DRow.post_name)
    /\ FullyCached(Cached(DRow.post_url))
    /\ results' = Append(results, _merge_cached(DRow, Cached(DRow.post_url)))
    /\ didx' = IF stop_on_seen THEN Len(source) + 1 ELSE didx + 1
    /\ UNCHANGED <<fnVars, batchVars, table, source, keywords, stop_on_seen, existing_map,
                   dpc, druns, before>>

CheckPost_CachedLinkKept(row, cached, api, page1, soup, page2, text) ==
    LET link0 == cached.minas_link
        pwd0  == cached.minas_pwd
        useApi == HasPostId(row.post_url) /\ api.link # Empty
        link1 == IF useApi THEN Or(link0, api.link) ELSE link0
        pwd1  == IF useApi THEN Or(pwd0, api.pwd) ELSE pwd0
        needPage == link1 = Empty
        useSoup == needPage /\ soup.link # Empty
        link2 == IF useSoup THEN soup.link ELSE link1
        pwd2  == IF useSoup THEN Or(pwd1, soup.pwd) ELSE pwd1
        havePage == IF needPage THEN TRUE ELSE page2
        useText == (link2 = Empty \/ pwd2 = Empty) /\ havePage
        link3 == IF useText THEN Or(link2, text.link) ELSE link2
        pwd3  == IF useText THEN Or(pwd2, text.pwd) ELSE pwd2
    IN  [raised |-> needPage /\ ~page1, row |-> Result(row, link3, pwd3)]

\* The three stages for one post.  api, soup and text are what the stages
\* return when they are run; page1 and page2 tell whether get_soup succeeds.
\* The result is the row to append, or raised when the first get_soup raises.
CheckPost(row, cached, api, page1, soup, page2, text) ==
    LET link0 == cached.minas_link
        pwd0  == cached.minas_pwd
        useApi == HasPostId(row.post_url) /\ api.link # Empty
        link1 == IF useApi THEN api.link ELSE link0
        pwd1  == IF useApi THEN Or(pwd0, api.pwd) ELSE pwd0
        needPage == link1 = Empty
        useSoup == needPage /\ soup.link # Empty
        link2 == IF useSoup THEN soup.link ELSE link1
        pwd2  == IF useSoup THEN Or(pwd1, soup.pwd) ELSE pwd1
        havePage == IF needPage THEN TRUE ELSE page2
        useText == (link2 = Empty \/ pwd2 = Empty) /\ havePage
        link3 == IF useText THEN Or(link2, text.link) ELSE link2
        pwd3  == IF useText THEN Or(pwd2, text.pwd) ELSE pwd2
    IN  [raised |-> needPage /\ ~page1, row |-> Result(row, link3, pwd3)]

\* "check": the stages run and the row is appended, or run() raises
DCheckRow ==
    /\ InDLoop
    /\ DRow.post_url # Empty
    /\ _matches_keywords(DRow.post_name)
    /\ ~FullyCached(Cached(DRow.post_url))
    /\ \E api \in ApiResults, soup \in SoupResults, text \in TextResults,
          page1 \in BOOLEAN, page2 \in BOOLEAN :
          LET r == CheckPost(DRow, Cached(DRow.post_url), api, page1, soup, page2, text)
          IN  IF r.raised
              THEN dpc' = "crashed" /\ UNCHANGED <<results, didx>>
              ELSE dpc' = dpc /\ results' = Append(results, r.row) /\ didx' = didx + 1
    /\ UNCHANGED <<fnVars, batchVars, table, source, keywords, stop_on_seen, existing_map,
                   druns, before>>

\* self._write_csv(results)
DWrite ==
    /\ dpc = "loop" /\ didx > Len(source)
    /\ table' = _write_csv(results, table)
    /\ dpc' = "written"
    /\ UNCHANGED <<fnVars, batchVars, source, keywords, stop_on_seen, existing_map, results,
                   didx, druns, before>>

InitDiscovery == BatchIdle /\ DiscoveryIdle /\ FnIdle

NextDiscovery ==
    \/ DStart \/ DSkipNoUrl \/ DSkipKeyword \/ DCachedRow \/ DCheckRow \/ DWrite

SpecDiscovery == InitDiscovery /\ [][NextDiscovery]_vars

----------------------------------------------------------------------------
(* The extraction block of _zip_current_path taken on its own, for every     *)
(* archive over a small set of member names and with or without a forced     *)
(* extraction directory (the batch passes one, the single-share mode none).  *)

MemberCatalogue ==
    { <<"x">>, <<"F","x">>, <<"F","y">>, <<"F","F">>, <<"F","">>, <<"G","y">> }

ArchiveCatalogue ==
    { Arch("zip", TRUE, d, ms) :
          d \in BOOLEAN, ms \in (SUBSET MemberCatalogue) \ {{}} }
    \cup { Arch("empty", TRUE, FALSE, {}), Arch("notzip", FALSE, FALSE, {}) }

\* "decide extraction target"
ExtractTarget(members, force) ==
    IF force THEN "force_extract_dir"
    ELSE IF has_single_root(members) THEN "out_dir"
    ELSE "out_dir/stem"

\* The try block without a forced directory: extractall into the target and
\* nothing else.  tree is what the call put below its target.
ExtractUnforced(arch) ==
    IF ~arch.readable
    THEN {[created |-> FALSE, tree |-> {}, raised |-> TRUE]}
    ELSE IF arch.damaged
    THEN {[created |-> TRUE, tree |-> ExtractAll(part), raised |-> TRUE] :
              part \in (SUBSET arch.members) \ {arch.members}}
    ELSE {[created |-> TRUE, tree |-> ExtractAll(arch.members), raised |-> FALSE]}

TryBlock(arch, force) == IF force THEN ExtractForced(arch) ELSE ExtractUnforced(arch)

UnzipCalls == [fn : {"unzip"}, arch : ArchiveCatalogue, force : BOOLEAN]

\* lines 312-354 for one saved archive: the try block, then the statement
\* after it is reached whether or not the block raised
Unzip ==
    /\ call.fn = "unzip" /\ ret = NoRet
    /\ \E o \in TryBlock(call.arch, call.force) :
          ret' = [done |-> TRUE,
                  target |-> IF call.arch.readable
                             THEN ExtractTarget(call.arch.members, call.force)
                             ELSE "none",
                  tree |-> o.tree,
                  raised |-> o.raised,
                  dest_exists |-> DestExistsAfter(o),
                  next |-> AfterExtraction("none")]
    /\ UNCHANGED <<call, batchVars, discVars>>

InitUnzip == BatchIdle /\ DiscoveryIdle /\ call \in UnzipCalls /\ ret = NoRet

NextUnzip == Unzip

SpecUnzip == InitUnzip /\ [][NextUnzip]_vars

----------------------------------------------------------------------------
(* The extractors of MinasScraper taken on their own.                        *)
(*                                                                           *)
(* A text is a sequence of tokens, each a run of characters of one class     *)
(* that the patterns never split:                                            *)
(*   "tiquma", "mima", "fangwenma"  the three Chinese labels of              *)
(*                                  _pwd_patterns[0..2]                      *)
(*   "pass", "code"                 those letters (alphanumeric, 4 chars)    *)
(*   "ABC", "XYZ", "ab", "1", "2"   alphanumeric runs of 3, 3, 2, 1, 1 chars *)
(*   ":"  " "                       a colon; white space (blank or newline)  *)
(*   "Um"                           "https://minas.mihoyo.com/"              *)
(*   "Ub"                           "https://pan.baidu.com/s/"               *)

MaxBlob    == 4     \* tokens in a text searched for a password
MaxAnchors == 2     \* hyperlinks in a document

AlnumTokens == {"pass", "code", "ABC", "XYZ", "ab", "1", "2"}
SepTokens   == {":", " "}
LabelTokens == {"tiquma", "mima", "fangwenma"}
HostTokens  == {"Um", "Ub"}
NonSpace    == AlnumTokens \cup LabelTokens \cup HostTokens \cup {":"}

TokLen(tok) ==
    IF tok \in {"pass", "code"} THEN 4
    ELSE IF tok \in {"ABC", "XYZ"} THEN 3
    ELSE IF tok = "ab" THEN 2
    ELSE 1

RECURSIVE CharLen(_)
CharLen(t) == IF t = <<>> THEN 0 ELSE TokLen(Head(t)) + CharLen(Tail(t))

\* the last position of the longest run of tokens of class cls that starts
\* at position i (i - 1 when there is none): a greedy X* or X+
RECURSIVE RunEnd(_, _, _)
RunEnd(t, i, cls) ==
    IF i <= Len(t) /\ t[i] \in cls THEN RunEnd(t, i + 1, cls) ELSE i - 1

\* "[:\s]*([a-zA-Z0-9]{3,20})" matched at position i: the captured run, or
\* Empty when fewer than three characters follow the separators
ValueAt(t, i) ==
    LET j == RunEnd(t, i, SepTokens) + 1
        e == RunEnd(t, j, AlnumTokens)
        fits == {k \in j..e : CharLen(SubSeq(t, j, k)) <= 20}
        last == IF fits = {} THEN j - 1 ELSE CHOOSE k \in fits : \A h \in fits : h <= k
    IN  IF CharLen(SubSeq(t, j, last)) >= 3 THEN SubSeq(t, j, last) ELSE Empty

PwdLabels == <<"tiquma", "mima", "fangwenma", "pass">>

NoMatch == [ok |-> FALSE, groups |-> <<>>]

\* _pwd_patterns[k - 1].match at position i of t: m.groups(), None as Empty.
\* The fourth pattern has two groups, "(code)?" and the value; the optional
\* group is tried first and given up when no value follows it.
PwdMatchAt(t, i, k) ==
    IF t[i] # PwdLabels[k] THEN NoMatch
    ELSE IF k < 4
    THEN IF ValueAt(t, i + 1) # Empty
         THEN [ok |-> TRUE, groups |-> <<ValueAt(t, i + 1)>>]
         ELSE NoMatch
    ELSE IF i + 1 <= Len(t) /\ t[i + 1] = "code" /\ ValueAt(t, i + 2) # Empty
         THEN [ok |-> TRUE, groups |-> << <<"code">>, ValueAt(t, i + 2) >>]
         ELSE IF ValueAt(t, i + 1) # Empty
         THEN [ok |-> TRUE, groups |-> << Empty, ValueAt(t, i + 1) >>]
         ELSE NoMatch

\* _pwd_patterns[k - 1].search(t): the leftmost match
PwdSearch(t, k) ==
    LET at == {i \in 1..Len(t) : PwdMatchAt(t, i, k).ok}
    IN  IF at = {} THEN NoMatch
        ELSE PwdMatchAt(t, CHOOSE i \in at : \A h \in at : i <= h, k)

\* "for g in m.groups(): if g:" the first captured group that is not empty
FirstGroup(groups) ==
    LET ne == {n \in 1..Len(groups) : groups[n] # Empty}
    IN  IF ne = {} THEN Empty ELSE groups[CHOOSE n \in ne : \A h \in ne : n <= h]

FirstMatching_Last(K) == CHOOSE k \in K : \A h \in K : h <= k

\* "for pp in self._pwd_patterns: ... if m: ... break / return": of the
\* patterns K that match, the loop stops at the first in list order
FirstMatching(K) == CHOOSE k \in K : \A h \in K : k <= h

\* the password loop of _extract_from_text
TextPassword(t) ==
    LET K == {k \in 1..Len(PwdLabels) : PwdSearch(t, k).ok}
    IN  IF K = {} THEN Empty ELSE FirstGroup(PwdSearch(t, FirstMatching(K)).groups)

\* _password_near, given the blob it joins from the text around the anchor
_password_near(blob) ==
    LET K == {k \in 1..Len(PwdLabels) :
                 PwdSearch(blob, k).ok /\ FirstGroup(PwdSearch(blob, k).groups) # Empty}
    IN  IF K = {} THEN Empty ELSE FirstGroup(PwdSearch(blob, FirstMatching(K)).groups)

\* _url_patterns: the host each pattern needs, the class of the characters
\* it takes after the host and how many of them it needs.  Patterns 3 to 6
\* (lanzou, 189, 123pan, weiyun) match no token of the model's texts.
UrlPatterns ==
    << [hosts |-> {"Um"}, tail |-> NonSpace,    min |-> 1],
       [hosts |-> {"Ub"}, tail |-> AlnumTokens, min |-> 1],
       [hosts |-> {},     tail |-> AlnumTokens, min |-> 1],
       [hosts |-> {},     tail |-> AlnumTokens, min |-> 1],
       [hosts |-> {},     tail |-> AlnumTokens, min |-> 1],
       [hosts |-> {},     tail |-> AlnumTokens, min |-> 1],
       [hosts |-> {"Um"}, tail |-> NonSpace,    min |-> 1],
       [hosts |-> {"Um"}, tail |-> NonSpace,    min |-> 0] >>

\* _url_patterns[k - 1].search(t).group(0), Empty when there is no match
UrlSearch(t, k) ==
    LET up == UrlPatterns[k]
        at == {i \in 1..Len(t) :
                  t[i] \in up.hosts /\ RunEnd(t, i + 1, up.tail) - i >= up.min}
    IN  IF at = {} THEN Empty
        ELSE LET i == CHOOSE i \in at : \A h \in at : i <= h
             IN  SubSeq(t, i, RunEnd(t, i + 1, up.tail))

_extract_from_text_PasswordAnyway(t) ==
    LET K == {k \in 1..Len(UrlPatterns) : UrlSearch(t, k) # Empty}
    IN  IF K = {} THEN Found(Empty, TextPassword(t))
        ELSE Found(UrlSearch(t, CHOOSE k \in K : \A h \in K : k <= h), TextPassword(t))

\* _extract_from_text: the first URL pattern that matches gives the link;
\* the password is looked for only when there is a link
_extract_from_text(t) ==
    LET K == {k \in 1..Len(UrlPatterns) : UrlSearch(t, k) # Empty}
    IN  IF K = {} THEN Nothing
        ELSE Found(UrlSearch(t, CHOOSE k \in K : \A h \in K : k <= h), TextPassword(t))

\* The two loops of _extract_from_soup, anchors outside and URL patterns
\* inside.  pwd is assigned only where a pattern matched the href, and a
\* non-empty pwd makes the function return at once with the link just set;
\* so the loops return at the first pair (anchor n, pattern k), anchors first,
\* such that the pattern matches the stripped non-empty href and a password
\* is found near the anchor, and otherwise run to their end.
SoupHits(anchors) ==
    {h \in (1..Len(anchors)) \X (1..Len(UrlPatterns)) :
        /\ Strip(anchors[h[1]].href) # <<>>
        /\ UrlSearch(Strip(anchors[h[1]].href), h[2]) # Empty
        /\ _password_near(anchors[h[1]].near) # Empty}

FirstHit(hits) ==
    CHOOSE h \in hits :
        \A g \in hits : h[1] < g[1] \/ (h[1] = g[1] /\ h[2] <= g[2])

\* soup.get_text: the text around every anchor, then the rest of the page
RECURSIVE SoupText(_, _)
SoupText(anchors, rest) ==
    IF anchors = <<>> THEN rest
    ELSE Head(anchors).near \o <<" ">> \o SoupText(Tail(anchors), rest)

\* "return link, pwd" inside the loops, at the hit h
HitResult(anchors, h) ==
    Found(UrlSearch(Strip(anchors[h[1]].href), h[2]), _password_near(anchors[h[1]].near))

\* the return inside the loops, or else the result of _extract_from_text
\* on the page text
SoupResult(soup, hits) ==
    IF hits # {} THEN HitResult(soup.anchors, FirstHit(hits))
    ELSE _extract_from_text(SoupText(soup.anchors, soup.rest))

\* _extract_from_soup
_extract_from_soup(soup) == SoupResult(soup, SoupHits(soup.anchors))

\* ---- the calls

RECURSIVE SeqsUpTo(_, _)
SeqsUpTo(S, n) ==
    IF n = 0 THEN {<<>>}
    ELSE LET shorter == SeqsUpTo(S, n - 1)
         IN  shorter \cup {Append(q, x) : q \in shorter, x \in S}

\* the texts searched for a password: two of the labels, the generic label
\* and its suffix, white space, two values and a run too short for a value
Blobs == SeqsUpTo({"tiquma", "mima", "pass", "code", " ", "ABC", "XYZ", "ab"}, MaxBlob)

\* what precedes the part searched for a password: nothing, a link and
\* white space, a link running into the text, a link of the second pattern
LinkPrefixes == { <<>>, <<"Um", "1", " ">>, <<"Um", "1">>, <<"Ub", "1">> }

TextCalls == { [fn |-> "_extract_from_text", text |-> pre \o b] :
                   pre \in LinkPrefixes, b \in Blobs }

NearCalls == { [fn |-> "_password_near", text |-> b] : b \in Blobs }

Anchors ==
    [ href : { <<>>, <<" ", "Um", "1">>, <<"Ub", "2">>, <<"1">> },
      near : { <<>>, <<"tiquma", ":", "ABC">>, <<"pass", "code", "XYZ">> } ]

SoupCalls ==
    { [fn |-> "_extract_from_soup", soup |-> [anchors |-> as, rest |-> r]] :
          as \in SeqsUpTo(Anchors, MaxAnchors),
          r \in { <<>>, <<"Ub", "1", " ", "mima", "XYZ">> } }

\* What getPostFull can answer for a post: the request or the decoding of
\* the answer raises (ok = FALSE), or the answer is decoded and big_text, the
\* post's content and structured content joined, is text (empty when the
\* answer holds no post).
ApiPayloads ==
    { [ok |-> FALSE, text |-> <<>>] }
    \cup { [ok |-> TRUE, text |-> t] :
             t \in { <<>>, <<"Um", "1">>, <<"tiquma", "ABC">>,
                     <<"Um", "1", " ", "tiquma", "ABC">> } }

\* a stage's result together with whether the stage raised
Stage(found, raised) == [link |-> found.link, pwd |-> found.pwd, raised |-> raised]

_extract_via_miyoushe_api_Propagates(payload) ==
    IF ~payload.ok THEN Stage(Nothing, TRUE)
    ELSE Stage(_extract_from_text(payload.text), FALSE)

\* _extract_via_miyoushe_api: "except Exception: return None, None" around
\* fetch and resp.json(), "if not post: return None, None", else the result
\* of _extract_from_text on big_text
_extract_via_miyoushe_api(payload) ==
    IF ~payload.ok THEN Stage(Nothing, FALSE)
    ELSE Stage(_extract_from_text(payload.text), FALSE)

ApiCalls == { [fn |-> "_extract_via_miyoushe_api", payload |-> pl] : pl \in ApiPayloads }

\* What get_soup(url) gives for a post: it raises (ok = FALSE) or it returns
\* the parsed page.
Pages ==
    { [ok |-> FALSE, anchors |-> <<>>, rest |-> <<>>] }
    \cup { [ok |-> TRUE, anchors |-> as, rest |-> r] :
             as \in SeqsUpTo(Anchors, 1),
             r \in { <<>>, <<"Ub", "1", " ", "mima", "XYZ">> } }

\* The body of run()'s loop for one post that is checked (lines 130-169):
\* the post, what the cache holds for it (never both link and password),
\* what the API answers and what the page is.
CheckCalls ==
    { [fn |-> "check", row |-> r, cached |-> c, payload |-> pl, page |-> pg] :
          r \in { Post(<<"t">>, <<"W">>, ArticleUrl), Post(<<"t">>, <<"n">>, OtherUrl) },
          c \in { NoCache, [minas_link |-> <<"Ub", "2">>, minas_pwd |-> Empty] },
          pl \in ApiPayloads,
          pg \in Pages }

Returned(found) == [done |-> TRUE, link |-> found.link, pwd |-> found.pwd]

StageReturned(st) ==
    [done |-> TRUE, link |-> st.link, pwd |-> st.pwd, raised |-> st.raised]

ExtractViaApi ==
    /\ call.fn = "_extract_via_miyoushe_api" /\ ret = NoRet
    /\ ret' = StageReturned(_extract_via_miyoushe_api(call.payload))
    /\ UNCHANGED <<call, batchVars, discVars>>

\* the row of a checked post; an exception of the API stage, were there
\* one, would leave the loop body as the page's does
RowReturned(api, r) ==
    [done |-> TRUE, link |-> r.row.minas_link, pwd |-> r.row.minas_pwd,
     raised |-> api.raised \/ r.raised]

\* the three stages on the post of the call: the API stage only for a post
\* id in the URL, the hyperlink and raw-text stages computed by their
\* extractors from the page
Check ==
    /\ call.fn = "check" /\ ret = NoRet
    /\ \E api \in { IF HasPostId(call.row.post_url)
                    THEN _extract_via_miyoushe_api(call.payload)
                    ELSE Stage(Nothing, FALSE) },
          soup \in { _extract_from_soup(call.page) },
          text \in { _extract_from_text(SoupText(call.page.anchors, call.page.rest)) } :
          ret' = RowReturned(api, CheckPost(call.row, call.cached, api, call.page.ok,
                                            soup, call.page.ok, text))
    /\ UNCHANGED <<call, batchVars, discVars>>

ExtractFromText ==
    /\ call.fn = "_extract_from_text" /\ ret = NoRet
    /\ ret' = Returned(_extract_from_text(call.text))
    /\ UNCHANGED <<call, batchVars, discVars>>

PasswordNear ==
    /\ call.fn = "_password_near" /\ ret = NoRet
    /\ ret' = Returned(Found(Empty, _password_near(call.text)))
    /\ UNCHANGED <<call, batchVars, discVars>>

ExtractFromSoup ==
    /\ call.fn = "_extract_from_soup" /\ ret = NoRet
    /\ ret' = Returned(_extract_from_soup(call.soup))
    /\ UNCHANGED <<call, batchVars, discVars>>

InitExtract ==
    /\ BatchIdle /\ DiscoveryIdle
    /\ call \in TextCalls \cup NearCalls \cup SoupCalls \cup ApiCalls \cup CheckCalls
    /\ ret = NoRet

NextExtract ==
    ExtractFromText \/ PasswordNear \/ ExtractFromSoup \/ ExtractViaApi \/ Check

SpecExtract == InitExtract /\ [][NextExtract]_vars

----------------------------------------------------------------------------
(* The batch downloader as a whole *)

Init == InitBatch /\ DiscoveryIdle /\ FnIdle

Next ==
    \/ LoopStop \/ LoopDone \/ RowSkipMissing \/ RowSkipExists \/ RowAcquire
    \/ NextRun \/ RowTimeout \/ RowFails \/ Interrupt
    \/ Launch \/ PasswordGate \/ LocateZip \/ Listen \/ Click
    \/ TokenSeen \/ DownloadStarts \/ TokenWait \/ TokenFound \/ TokenGiveUp
    \/ GotDownload \/ SaveAndExtract \/ PollerJoined \/ Close
    \/ PollResponse \/ PollNoBody \/ PollPageGone

Spec == Init /\ [][Next]_vars

\* The statements of the for loop between two rows run to their end, being
\* synchronous code of a running program.
LoopStep == LoopStop \/ LoopDone \/ RowSkipMissing \/ RowSkipExists \/ RowAcquire

\* The event loop runs the timer of asyncio.wait_for: a row that stays in
\* progress is cancelled.  Nothing is assumed of the browser, the server or
\* the poller.
Fairness == WF_vars(LoopStep) /\ WF_vars(RowTimeout)

SpecLive == Init /\ [][Next]_vars /\ Fairness

----------------------------------------------------------------------------
(* Claims about the batch downloader, checked under Spec *)

RowIds == 1..NumRows

\* the last row the loop may hand to _process_csv_row
LastRow == IF MAX_ROWS = <<>> \/ MAX_ROWS[1] > Len(rows) THEN Len(rows) ELSE MAX_ROWS[1]

\* the loop went through all its rows after row i, unless the user broke it off
WentOnAfter(i) ==
    /\ idx > i
    /\ (bpc = "end" /\ ~aborted) => \A j \in (i + 1)..LastRow : j \in handed

\* C1: a row whose target directory exists when the loop reaches it starts no
\* acquisition (no browser session, nothing awaited, the directory untouched),
\* in this run and in every later one; a browser is only ever launched for a
\* row whose target directory does not exist.
C1_ExistingDirNeverAcquired ==
    [][ /\ (bpc = "loop" /\ idx \in RowIds /\ dirs[TargetDir(rows[idx])] # "absent")
            => (bpc' # "row" /\ sessions' = {} /\ dirs' = dirs)
        /\ (sessions' # sessions /\ sessions' # {})
            => dirs[TargetDir(rows[idx])] = "absent" ]_vars

\* a row was skipped because an earlier acquisition had created its directory
C1_Witness ==
    \E i \in RowIds : outcome[i] = "skip_exists" /\ sessions = {} /\ bpc = "loop"

\* C2: a failed extraction leaves no target directory behind; equivalently,
\* every target directory that exists holds its completely extracted and
\* flattened archive.
C2_FailedExtractionLeavesNoDir ==
    /\ \A d \in DirNames : dirs[d] \in {"absent", "complete"}
    /\ (bpc = "row" /\ extractRaised) => dirs[TargetDir(rows[idx])] = "absent"

\* C3: once the ZIP button has been clicked a download listener is attached,
\* so the download event is never emitted unheard.
C3_ListenerAttachedBeforeClick ==
    /\ clicked => listener
    /\ dlEvent # "missed"

\* C4: after a row that ended in FAILED the loop goes on: every later row up
\* to the row limit is handed to _process_csv_row.
C4_FailureDoesNotStopLoop ==
    \A i \in RowIds : outcome[i] = "FAILED" => WentOnAfter(i)

\* the first row failed, the second was still processed, the loop ended
C4_Witness ==
    outcome[1] = "FAILED" /\ 2 \in handed /\ bpc = "end" /\ ~aborted

\* C5: a deadline exists for a row exactly when the configured timeout is
\* positive; a row that ran into it is cancelled (its session closed) and
\* printed as TIMEOUT, and the loop goes on with the next row.
C5_TimeoutSkipsRowOnly ==
    /\ bpc = "row" => ((ENABLED RowTimeout) <=> ROW_TIMEOUT_SEC > 0)
    /\ \A i \in RowIds :
          outcome[i] = "TIMEOUT"
             => ROW_TIMEOUT_SEC > 0 /\ i \notin sessions /\ WentOnAfter(i)

\* the first row timed out, the second was still processed, the loop ended
C5_Witness ==
    outcome[1] = "TIMEOUT" /\ 2 \in handed /\ bpc = "end" /\ ~aborted

\* C6: rows are handed over in input order, a row only after every earlier
\* row has its outcome, and at most one browser session is live, that of the
\* row being processed.
C6_OneRowAtATime ==
    /\ Cardinality(sessions) <= 1
    /\ sessions \subseteq {idx}
    /\ bpc # "row" => sessions = {}
    /\ \A j \in handed : \A i \in 1..(j - 1) : i \in handed /\ outcome[i] # "none"

\* the second row's session is live after the first row timed out
C6_Witness ==
    sessions = {2} /\ outcome[1] = "TIMEOUT"

\* C9: after the download was saved and unpacked the controller does not wait
\* for a poller that is still running.
C9_ControllerNeverWaitsForPoller ==
    ~(bpc = "row" /\ pc = "await_poll" /\ poll = "running")

\* C10: whatever the poller does, the controller is at the await of the
\* download or has already received it; a delivered download is taken
\* whatever the poller's state; and the end of the poller (Canceled, Failed,
\* Completed, page gone) changes nothing of the controller or of the row.
C10_PollerNeverGatesDownload ==
    /\ [](bpc = "row" /\ pc \notin {"launch", "gate", "locate", "listen", "click", "token_wait"}
            => \/ pc = "await_dl"
               \/ pc \in {"save", "await_poll", "close"} /\ dlEvent = "delivered")
    /\ []((bpc = "row" /\ pc = "await_dl" /\ dlEvent = "delivered") => ENABLED GotDownload)
    /\ [][ (poll = "running" /\ poll' \notin {"running", "none"})
              => UNCHANGED <<pc, bpc, idx, outcome, dlEvent, listener, dirs>> ]_vars

\* the download is received after the poller reported a failure
C10_Witness ==
    bpc = "row" /\ pc = "save" /\ poll = "Failed"

\* C13: the percent values the poller reports never go down and never exceed
\* 100: whenever a status response makes the poller report a new value, that
\* value is larger than the one reported before and at most 100.
C13_PercentNonDecreasingAtMost100 ==
    [][ (poll = "running" /\ poll' # "none" /\ last_pct' # last_pct)
            => (last_pct' > last_pct /\ last_pct' <= 100) ]_vars

\* a display name, share URL or password that is empty after normalisation
EmptyField(row) ==
    \/ StripChars(OuterUnquoted(row.minas_link), Quotes) = <<>>
    \/ StripChars(OuterUnquoted(row.minas_pwd), Quotes) = <<>>
    \/ OuterUnquoted(row.post_name) = <<>>

\* C17: a row with an empty display name, share URL or password starts no
\* acquisition: the step that takes it only records the skip and moves to the
\* next row, no session is opened, nothing is raised (the row is never printed
\* FAILED, the loop is not left), and the rows after it are still processed.
C17_MissingFieldRowSkipped ==
    /\ [][ (bpc = "loop" /\ idx \in RowIds /\ ~(MAX_ROWS # <<>> /\ idx > MAX_ROWS[1])
               /\ EmptyField(rows[idx]))
            => /\ bpc' = "loop" /\ idx' = idx + 1
               /\ outcome' = [outcome EXCEPT ![idx] = "skip_missing"]
               /\ sessions' = {} /\ dirs' = dirs /\ ~aborted' ]_vars
    /\ [](\A i \in RowIds :
            (i \in handed /\ EmptyField(rows[i]))
               => outcome[i] = "skip_missing" /\ WentOnAfter(i))

\* a row without password was skipped, the row after it was acquired and done
C17_Witness ==
    /\ outcome[1] = "skip_missing" /\ outcome[2] = "done"
    /\ StripChars(OuterUnquoted(rows[1].minas_pwd), Quotes) = <<>>
    /\ rows[1].minas_pwd # <<>>

\* C18: with a row limit n only the first n rows, in order, are handed to
\* _process_csv_row; the row after the limit ends the loop without a failure
\* and without an interrupt; a loop that ended by itself has handed over all
\* rows up to the limit, and all rows when no limit is set.
C18_RowLimit ==
    /\ [](\A j \in handed :
            /\ MAX_ROWS # <<>> => j <= MAX_ROWS[1]
            /\ \A i \in 1..j : i \in handed)
    /\ []((bpc = "end" /\ ~aborted)
            => handed = {i \in 1..Len(rows) : MAX_ROWS = <<>> \/ i <= MAX_ROWS[1]})
    /\ [][ (bpc = "loop" /\ idx <= Len(rows) /\ MAX_ROWS # <<>> /\ idx > MAX_ROWS[1])
            => (bpc' = "end" /\ handed' = handed /\ outcome' = outcome /\ ~aborted'
                /\ sessions' = {}) ]_vars

\* a limit of one row stopped a run of two rows after the first
C18_Witness ==
    /\ MAX_ROWS = <<1>> /\ Len(rows) = 2
    /\ bpc = "end" /\ ~aborted /\ handed = {1} /\ outcome[1] = "done" /\ outcome[2] = "none"

\* C22: for every status response the poller may get, a set canceled flag
\* ends it as Canceled whatever else the response says; otherwise a set failed
\* flag ends it as Failed; otherwise it ends as Completed exactly when total
\* is not zero and zipped has reached it; otherwise it goes on polling.  So a
\* poller that ended as Completed has reported at least 100%, and one that
\* goes on has reported less.
C22_TerminalConditionsInOrder ==
    /\ [](Polling =>
            \A got \in Responses :
               /\ got.canceled = 1 => PollVerdict(got) = "Canceled"
               /\ (got.canceled = 0 /\ got.failed = 1) => PollVerdict(got) = "Failed"
               /\ (got.canceled = 0 /\ got.failed = 0)
                     => PollVerdict(got) =
                           IF got.total > 0 /\ got.zipped >= got.total
                           THEN "Completed" ELSE "running")
    /\ [][ (poll = "running" /\ last_pct' # last_pct /\ poll' # "none")
             => /\ poll' \in {"Canceled", "Failed", "Completed", "running"}
                /\ poll' = "Completed" => last_pct' >= 100
                /\ poll' = "running" => last_pct' < 100 ]_vars

\* the poller ended as Canceled on a response that also reported everything
\* zipped
C22_Witness ==
    bpc = "row" /\ poll = "Canceled" /\ last_pct = 100

\* C28: the wait for a progress token is bounded.  It goes on in steps of
\* 250 ms, only while no token has been captured, and never beyond 30000 ms;
\* when it is over without a token the controller can go on, and when it goes
\* on it awaits the download with no poller started.
C28_TokenWaitBounded ==
    /\ [](waited \in 0..TOKEN_WAIT_LIMIT)
    /\ []((At("token_wait") /\ progress_token = "" /\ waited >= TOKEN_WAIT_LIMIT)
             => ENABLED TokenGiveUp)
    /\ [][ /\ waited' > waited
              => /\ At("token_wait") /\ holder = ""
                 /\ waited' = waited + TOKEN_WAIT_STEP
           /\ (At("token_wait") /\ bpc' = "row" /\ pc' # "token_wait" /\ progress_token' = "")
              => /\ waited = TOKEN_WAIT_LIMIT
                 /\ pc' = "await_dl"
                 /\ poll' = "none" ]_vars

\* the controller awaits the download after a click, with no token and no
\* poller, while the page had sent a token too late for the loop to see it
C28_Witness ==
    /\ At("await_dl") /\ clicked
    /\ progress_token = "" /\ poll = "none" /\ holder # ""

\* C26: with a positive row timeout a batch run terminates.  Every row that
\* is being processed stops being processed, whatever the browser, the
\* download event and the poller do, and the loop reaches its end.
C26_BatchRunTerminates ==
    /\ (ROW_TIMEOUT_SEC > 0 /\ bpc = "row") ~> (bpc # "row")
    /\ (ROW_TIMEOUT_SEC > 0 /\ bpc # "end") ~> (bpc = "end")

\* both rows were cut off by the timeout and the loop is at its end
C26_Witness ==
    /\ ROW_TIMEOUT_SEC > 0
    /\ bpc = "end" /\ ~aborted
    /\ \A i \in RowIds : outcome[i] = "TIMEOUT"

\* C29: when the row timeout fires, the directory of the row's target does
\* not exist or holds the completely extracted and flattened payload.
C29_TimeoutLeavesNoPartialDir ==
    [][ (bpc = "row" /\ outcome'[idx] = "TIMEOUT")
          => dirs'[TargetDir(rows[idx])] \in {"absent", "complete"} ]_vars

----------------------------------------------------------------------------
(* Claims about the discovery run, checked under SpecDiscovery *)

UrlsOf(t) == {t[i].post_url : i \in 1..Len(t)} \ {Empty}

\* the positions of the stored rows that the run's rows do not overlap
CarriedIdx == {i \in 1..Len(before) : before[i].post_url \notin UrlsOf(results)}

\* the k-th of them, in stored order
NthCarried(k) ==
    CHOOSE i \in CarriedIdx : Cardinality({j \in CarriedIdx : j < i}) = k - 1

\* C7: what _write_csv leaves in the table is the run's rows in their order,
\* then the stored rows whose post_url no row of the run has, in their stored
\* order; so it has |new| + |stored, not overlapping| rows and no stale row
\* of an identifier the run supplied.
C7_WriteIsNewThenCarried ==
    dpc = "written" =>
        LET n == Len(results) IN
        /\ Len(table) = n + Cardinality(CarriedIdx)
        /\ \A i \in 1..n : table[i] = results[i]
        /\ \A k \in 1..(Len(table) - n) : table[n + k] = before[NthCarried(k)]
        /\ \A i \in 1..Len(table) : table[i].post_url \in UrlsOf(results) => i <= n

\* a write that replaced a stale row by the run's values and carried another
C7_Witness ==
    /\ dpc = "written"
    /\ \E i \in 1..Len(before) :
          /\ before[i].post_url \in UrlsOf(results)
          /\ \A j \in 1..Len(table) : table[j] # before[i]
    /\ CarriedIdx # {}

\* C8: no step, the final write included, removes a non-empty post_url from
\* the table.
C8_NoIdentifierLost ==
    [][UrlsOf(table) \subseteq UrlsOf(table')]_vars

\* a write after a run whose source list named a stored post that the run
\* skipped (keyword filter or stop_on_seen): the post is still in the table
C8_Witness ==
    /\ dpc = "written"
    /\ \E i \in 1..Len(source) :
          LET u == Strip(source[i].post_url) IN
          /\ u \in UrlsOf(before)
          /\ u \notin UrlsOf(results)
          /\ u \in UrlsOf(table)
    /\ \E u \in UrlsOf(before) :
          /\ \A i \in 1..Len(source) : Strip(source[i].post_url) # u
          /\ u \in UrlsOf(table)

\* the post the loop is at is one that the run checks or takes from the cache
AtPost == InDLoop /\ DRow.post_url # Empty /\ _matches_keywords(DRow.post_name)

\* C14: for a post that is checked and whose URL names an article, whenever
\* the API stage returns a link the row recorded carries exactly that link,
\* whatever the cache held and whatever the page's hyperlinks and text would
\* yield, and no page has to be fetched for it.
C14_ApiLinkTakesPrecedence ==
    (AtPost /\ HasPostId(DRow.post_url)
       /\ ~(Cached(DRow.post_url).minas_link # Empty /\ Cached(DRow.post_url).minas_pwd # Empty))
    => \A api \in ApiResults, soup \in SoupResults, text \in TextResults,
          page1 \in BOOLEAN, page2 \in BOOLEAN :
          api.link # Empty =>
             LET r == CheckPost(DRow, Cached(DRow.post_url), api, page1, soup, page2, text)
             IN  ~r.raised /\ r.row.minas_link = api.link

\* a row was recorded with the API's link although the cache held the link
\* that an earlier run had taken from the page's hyperlinks
C14_Witness ==
    /\ dpc = "loop"
    /\ \E i \in 1..Len(results) :
          /\ results[i].minas_link = <<"La">>
          /\ Cached(results[i].post_url).minas_link = <<"Ls">>

\* C16: a post whose cached record has link and password is taken from the
\* cache: the only step for it appends the cached link and password and cannot
\* fail on a page fetch; a post whose cached record has a link but no password
\* is checked again, and the check can supply the password.
C16_CompleteCacheOnly ==
    /\ [](AtPost =>
            LET c == Cached(DRow.post_url) IN
            /\ (c.minas_link # Empty /\ c.minas_pwd # Empty)
                  => (ENABLED DCachedRow /\ ~ENABLED DCheckRow)
            /\ (c.minas_link # Empty /\ c.minas_pwd = Empty)
                  => /\ ENABLED DCheckRow /\ ~ENABLED DCachedRow
                     /\ \E text \in TextResults :
                           CheckPost(DRow, c, Nothing, TRUE, Nothing, TRUE, text)
                              .row.minas_pwd # Empty)
    /\ [][ (AtPost /\ Cached(DRow.post_url).minas_link # Empty
                   /\ Cached(DRow.post_url).minas_pwd # Empty)
            => /\ dpc' = "loop"
               /\ results' = Append(results,
                     Result(DRow, Cached(DRow.post_url).minas_link,
                                  Cached(DRow.post_url).minas_pwd)) ]_vars

\* a post cached with a link only was checked again and got its password,
\* after a post cached with both had been carried over
C16_Witness ==
    /\ dpc = "loop"
    /\ \E i, j \in 1..Len(results) :
          /\ i < j
          /\ Cached(results[i].post_url).minas_pwd # Empty
          /\ results[i].minas_pwd = Cached(results[i].post_url).minas_pwd
          /\ Cached(results[j].post_url).minas_link # Empty
          /\ Cached(results[j].post_url).minas_pwd = Empty
          /\ results[j].minas_pwd # Empty

\* C23: no page fetch that fails ends the run: a run that was started is in
\* its loop or has written its results, it never ends by raising with posts
\* left unprocessed and results unwritten.
C23_FetchFailureIsLocal ==
    /\ dpc \in {"idle", "loop", "written"}
    /\ dpc # "loop" => table = _write_csv(results, before)

\* C30: after the write of a discovery run no non-empty post_url is in two
\* rows of the table.
C30_OneRowPerPostUrl ==
    dpc = "written" =>
        \A i, j \in 1..Len(table) :
            (Strip(table[i].post_url) # Empty
                /\ Strip(table[i].post_url) = Strip(table[j].post_url)) => i = j

----------------------------------------------------------------------------
(* Claims about the extraction block, checked under SpecUnzip *)

\* every member lies under one and the same non-empty top-level folder
UnderOneFolder(ms) ==
    /\ ms # {}
    /\ \E m \in ms : m[1] # "" /\ \A k \in ms : Len(k) >= 2 /\ k[1] = m[1]

\* the entries below the top-level folder, each moved up one level
MovedUpOneLevel(ms) ==
    UNION { {SubSeq(q, 2, k) : k \in 2..Len(q)} :
               q \in {IF m[Len(m)] = "" THEN SubSeq(m, 1, Len(m) - 1) ELSE m : m \in ms} }

\* C11: an intact archive whose entries all lie under one top-level folder F,
\* unpacked into a forced directory T, leaves in T exactly the entries that
\* were under F, one level up; T/F is there only if F held an entry named F.
C11_FlattenedExactly ==
    (ret.done /\ call.force /\ call.arch.readable /\ ~call.arch.damaged
        /\ UnderOneFolder(call.arch.members))
    => ret.tree = MovedUpOneLevel(call.arch.members)

\* C12: after the extraction block the archive file is gone exactly when the
\* block did not raise, with and without a forced directory; when it raised
\* the file is still there; either way control is at the statement after the
\* block.
C12_ArchiveDeletedIffExtracted ==
    ret.done =>
        /\ ~ret.raised => ~ret.dest_exists
        /\ ret.raised => ret.dest_exists
        /\ ret.next = "close"
        /\ (call.arch.readable /\ ~call.arch.damaged
               /\ ~(call.force /\ <<"F","F">> \in call.arch.members
                               /\ UnderOneFolder(call.arch.members)))
            => ~ret.dest_exists

\* an archive without single root was unpacked without a forced directory
\* and its file removed
C12_Witness ==
    /\ ret.done /\ ~call.force /\ ret.target = "out_dir/stem"
    /\ ~ret.raised /\ ~ret.dest_exists /\ ret.tree # {}

\* C27: an archive has a single root exactly when it has an entry and all
\* its entries lie under one top-level folder with a name; the extraction
\* target is the forced directory when there is one, else the destination
\* root for a single-root archive, else the folder named after the archive
\* file below the destination root.
C27_ExtractionTarget ==
    (ret.done /\ call.arch.readable)
    => /\ has_single_root(call.arch.members) <=> UnderOneFolder(call.arch.members)
       /\ ret.target = IF call.force THEN "force_extract_dir"
                       ELSE IF UnderOneFolder(call.arch.members) THEN "out_dir"
                       ELSE "out_dir/stem"

\* a single-root archive of two entries was unpacked, without a forced
\* directory, into the destination root
C27_Witness ==
    /\ ret.done /\ ~call.force /\ ret.target = "out_dir"
    /\ Cardinality(call.arch.members) = 2 /\ ~ret.raised

----------------------------------------------------------------------------
(* Claims about the extractors, checked under SpecExtract *)

\* the password patterns that match the text of the call
MatchingPwdPatterns == {k \in 1..Len(PwdLabels) : PwdSearch(call.text, k).ok}

\* C15: in _extract_from_text (when it found a link) and in _password_near,
\* if any password pattern matches the text, the password returned is a group
\* captured by the first matching pattern of the list, whatever the later
\* patterns match and wherever in the text they match; if none matches, no
\* password is returned.
C15_FirstMatchingPatternWins ==
    (ret.done /\ call.fn \in {"_extract_from_text", "_password_near"})
    => /\ (MatchingPwdPatterns # {}
             /\ (call.fn = "_extract_from_text" => ret.link # Empty))
          => \E k \in MatchingPwdPatterns :
                /\ \A h \in MatchingPwdPatterns : k <= h
                /\ ret.pwd # Empty
                /\ \E n \in 1..Len(PwdSearch(call.text, k).groups) :
                      ret.pwd = PwdSearch(call.text, k).groups[n]
       /\ MatchingPwdPatterns = {} => ret.pwd = Empty

\* a text with a link, a generic "pass XYZ" and then a labelled code ABC
\* gave ABC
C15_Witness ==
    /\ ret.done /\ call.fn = "_extract_from_text"
    /\ call.text = <<"Um", "1", " ", "pass", "XYZ", "tiquma", "ABC">>
    /\ ret.pwd = <<"ABC">> /\ ret.link = <<"Um", "1">>

\* what the URL patterns find in the destination of anchor a
HrefMatches(a) ==
    {UrlSearch(Strip(a.href), k) : k \in 1..Len(UrlPatterns)} \ {Empty}

\* the anchors of the call whose destination matches a URL pattern
MatchingAnchors ==
    {n \in 1..Len(call.soup.anchors) : HrefMatches(call.soup.anchors[n]) # {}}

\* C19: the link _extract_from_soup returns is the match of the first
\* hyperlink, in document order, whose destination matches a URL pattern.
C19_FirstHyperlinkIsTheLink ==
    (ret.done /\ call.fn = "_extract_from_soup" /\ MatchingAnchors # {})
    => \E n \in MatchingAnchors :
          /\ \A h \in MatchingAnchors : n <= h
          /\ ret.link \in HrefMatches(call.soup.anchors[n])

\* C20: when some hyperlink destination matches a URL pattern, the link
\* returned is not empty and is the match of a hyperlink, with or without a
\* password; the scan of the page text decides the link only otherwise.
C20_TextScanOnlyWithoutHyperlink ==
    (ret.done /\ call.fn = "_extract_from_soup" /\ MatchingAnchors # {})
    => /\ ret.link # Empty
       /\ \E n \in MatchingAnchors : ret.link \in HrefMatches(call.soup.anchors[n])

\* C21: a password returned by _extract_from_text or _password_near is the
\* alphanumeric value that the first matching pattern captured after its
\* label (the last group of the match), also when the generic pattern matched
\* with its "code" suffix; it is never the suffix itself.
C21_PasswordIsTheValueAfterLabel ==
    (ret.done /\ call.fn \in {"_extract_from_text", "_password_near"}
        /\ ret.pwd # Empty)
    => \E k \in MatchingPwdPatterns :
          /\ \A h \in MatchingPwdPatterns : k <= h
          /\ LET groups == PwdSearch(call.text, k).groups
             IN  ret.pwd = groups[Len(groups)]

\* C24: a password is never produced without a link.  Each extraction stage
\* returns a password only together with a link, and so does the row of a
\* checked post; when the page is there and no stage finds a link, the row
\* has an empty link and an empty password and nothing is raised.
C24_NoPasswordWithoutLink ==
    (ret.done /\ call.fn \in {"_extract_from_text", "_extract_from_soup",
                              "_extract_via_miyoushe_api", "check"})
    => /\ ret.pwd # Empty => ret.link # Empty
       /\ (call.fn = "check" /\ call.page.ok /\ ret.link = Empty)
              => ~ret.raised /\ ret.pwd = Empty

\* a checked post whose API text and whose page both hold a password label
\* with a value, and no link anywhere: the row is recorded with neither
C24_Witness ==
    /\ ret.done /\ call.fn = "check"
    /\ HasPostId(call.row.post_url)
    /\ call.payload = [ok |-> TRUE, text |-> <<"tiquma", "ABC">>]
    /\ call.page.ok /\ Len(call.page.anchors) = 1
    /\ call.page.anchors[1].near = <<"tiquma", ":", "ABC">>
    /\ ret.link = Empty /\ ret.pwd = Empty /\ ~ret.raised

\* C25: a failure of the API request or of the decoding of its answer is not
\* fatal.  _extract_via_miyoushe_api then returns no link and no password
\* without raising, and the post's row is what the hyperlink and raw-text
\* stages make of the page.
C25_ApiFailureIsNotFatal ==
    (ret.done /\ call.fn \in {"_extract_via_miyoushe_api", "check"} /\ ~call.payload.ok)
    => IF call.fn = "_extract_via_miyoushe_api"
       THEN ret.link = Empty /\ ret.pwd = Empty /\ ~ret.raised
       ELSE LET r == CheckPost(call.row, call.cached, Nothing, call.page.ok,
                               _extract_from_soup(call.page), call.page.ok,
                               _extract_from_text(SoupText(call.page.anchors, call.page.rest)))
            IN  /\ ret.raised = r.raised
                /\ ret.link = r.row.minas_link
                /\ ret.pwd = r.row.minas_pwd

\* the API fails for a post with an id in its URL and nothing cached, and the
\* link and the password come from the page
C25_Witness ==
    /\ ret.done /\ call.fn = "check"
    /\ HasPostId(call.row.post_url) /\ call.cached = NoCache
    /\ ~call.payload.ok /\ call.page.ok
    /\ ~ret.raised /\ ret.link # Empty /\ ret.pwd # Empty

=============================================================================
